---- MODULE Spec2Model ----
(***************************************************************************)
(* A model of the Bible Databases API (main.py): dataset resolution, the   *)
(* per-request connection life cycle, the verse / passage / search         *)
(* queries, the two fan-out operations (get_all_translations and           *)
(* compare_translations) and the in-memory annotation store.               *)
(*                                                                         *)
(* Strings are sequences of one-character strings, so that upper-casing,   *)
(* suffix tests, path joins and LIKE matching are computed, not assumed.   *)
(***************************************************************************)
EXTENDS Integers, Sequences, FiniteSets, TLC

VARIABLES
    files,                  \* base directory: file name -> kind of content, or "absent"
    req,                    \* worker thread -> the request it is serving
    nOpen,                  \* number of sqlite connections currently open in the process
    verses,                 \* rows of a dataset's <ID>_verses table
    call,                   \* last query evaluated against `verses`, with its result
    ANNOTATIONS,            \* main.py global: the annotation list
    annotation_id_counter   \* main.py global: the next annotation id

vars == <<files, req, nOpen, verses, call, ANNOTATIONS, annotation_id_counter>>

----------------------------------------------------------------------------
(* Bounds of the model *)

MaxChapter == 3
MaxVerse == 2
MaxQueryLen == 2
MaxTextLen == 2
MaxAnnotations == 3
MaxRuns == 2

(* Program constants *)

SearchLimit == 100

Threads == {"w1", "w2"}

----------------------------------------------------------------------------
(* Strings *)

LowerLetters == <<"a","b","c","d","e","f","g","h","i","j","k","l","m",
                  "n","o","p","q","r","s","t","u","v","w","x","y","z">>

UpperLetters == <<"A","B","C","D","E","F","G","H","I","J","K","L","M",
                  "N","O","P","Q","R","S","T","U","V","W","X","Y","Z">>

Digits == <<"0","1","2","3","4","5","6","7","8","9">>

IndexIn(c, letters) == CHOOSE i \in 1..Len(letters) : letters[i] = c

IsLower(c) == \E i \in 1..Len(LowerLetters) : LowerLetters[i] = c

IsUpper(c) == \E i \in 1..Len(UpperLetters) : UpperLetters[i] = c

IsDigit(c) == \E i \in 1..Len(Digits) : Digits[i] = c

\* U+017F LATIN SMALL LETTER LONG S, a non-ASCII character whose upper case is "S"
LongS == "U+017F"

\* one character of str.upper()
UpperChar(c) ==
    IF IsLower(c) THEN UpperLetters[IndexIn(c, LowerLetters)]
    ELSE IF c = LongS THEN "S"
    ELSE c

LowerChar(c) == IF IsUpper(c) THEN LowerLetters[IndexIn(c, UpperLetters)] ELSE c

\* str.upper()
Upper(s) == [i \in 1..Len(s) |-> UpperChar(s[i])]

\* str.endswith(suffix)
EndsWith(s, suffix) ==
    /\ Len(s) >= Len(suffix)
    /\ SubSeq(s, Len(s) - Len(suffix) + 1, Len(s)) = suffix

StartsWith(s, prefix) ==
    /\ Len(s) >= Len(prefix)
    /\ SubSeq(s, 1, Len(prefix)) = prefix

DotDb == <<".", "d", "b">>

----------------------------------------------------------------------------
(* The base directory BASE_DB_PATH and the datasets in it *)

KjvDb == <<"K","J","V",".","d","b">>
AsvDb == <<"A","S","V",".","d","b">>
NotesTxt == <<"N","O","T","E","S",".","t","x","t">>

FileNames == {KjvDb, AsvDb, NotesTxt}

\* What a file of the directory holds:
\*   good        a dataset with its catalog row and its books / verses tables
\*   corrupt     a regular file that is not a sqlite database (execute raises)
\*   unopenable  a path sqlite3.connect cannot open (connect raises)
\*   emptycat    a dataset whose translations table has no row
\*   badrow      a dataset whose catalog row has a NULL title
\*   other       not a dataset at all
DatasetKinds == {"good", "corrupt", "unopenable", "emptycat", "badrow"}

\* os.listdir(BASE_DB_PATH)
ListDir == {f \in DOMAIN files : files[f] # "absent"}

RECURSIVE StripDotSlash(_)
\* the path below the base directory, with leading "./" components resolved
StripDotSlash(name) ==
    IF StartsWith(name, <<".", "/">>)
    THEN StripDotSlash(SubSeq(name, 3, Len(name)))
    ELSE name

\* os.path.exists(os.path.join(BASE_DB_PATH, file_name)) on a flat,
\* case-sensitive directory
PathExists(file_name) == StripDotSlash(file_name) \in ListDir

\* the file a path below the base directory names
FileAt(file_name) == StripDotSlash(file_name)

\* file_name = f"{translation_id.upper()}.db"
DbFileName(translation_id) == Upper(translation_id) \o DotDb

\* table_name = f"{translation_id.upper()}_verses"
VersesTable(translation_id) == Upper(translation_id) \o <<"_","v","e","r","s","e","s">>

\* the relations a per-translation dataset file exposes
TablesOf(file) ==
    LET stem == SubSeq(file, 1, Len(file) - Len(DotDb))
    IN  { stem \o <<"_","v","e","r","s","e","s">>,
          stem \o <<"_","b","o","o","k","s">>,
          <<"t","r","a","n","s","l","a","t","i","o","n","s">> }

\* an unquoted name the SQL parser takes as one identifier
IsSqlName(name) ==
    /\ Len(name) > 0
    /\ \A i \in 1..Len(name) :
          IsLower(name[i]) \/ IsUpper(name[i]) \/ IsDigit(name[i]) \/ name[i] = "_"
    /\ ~IsDigit(name[1])

\* cursor.execute(f"... FROM {table_name} ...") on an open connection to `file`:
\* TRUE when the statement runs, FALSE when sqlite3.Error is raised
ExecuteOk(file, table_name) ==
    /\ files[file] \in {"good", "emptycat", "badrow"}
    /\ IsSqlName(table_name)
    /\ \E t \in TablesOf(file) : Upper(t) = Upper(table_name)

----------------------------------------------------------------------------
(* Rows and the queries over a verses table *)

\* the text stored for the verse at a coordinate of the passage datasets
CoordText(b, c, v) == <<Digits[b + 1], ":", Digits[c + 1], ":", Digits[v + 1]>>

Row(b, c, v, txt) == [book_id |-> b, chapter |-> c, verse |-> v, text |-> txt]

\* Verse(verse=row["verse"], text=row["text"])
Verse(row) == [verse |-> row.verse, text |-> row.text]

VerseList(rows) == [i \in 1..Len(rows) |-> Verse(rows[i])]

\* ORDER BY verse / ORDER BY chapter, verse
OrderLE(a, b, byChapter) ==
    IF byChapter
    THEN a.chapter < b.chapter \/ (a.chapter = b.chapter /\ a.verse <= b.verse)
    ELSE a.verse <= b.verse

RECURSIVE OrderBy(_, _)
\* the rows of S in ascending order (the keys of S are distinct)
OrderBy(S, byChapter) ==
    IF S = {} THEN <<>>
    ELSE LET m == CHOOSE r \in S : \A o \in S : OrderLE(r, o, byChapter)
         IN  <<m>> \o OrderBy(S \ {m}, byChapter)

\* every order ORDER BY chapter, verse may return S in (rows with equal keys
\* come in an unspecified order)
OrderedSeqs(S) ==
    { s \in [1..Cardinality(S) -> S] :
        /\ \A r \in S : \E i \in DOMAIN s : s[i] = r
        /\ \A i, j \in DOMAIN s : i < j => OrderLE(s[i], s[j], TRUE) }

\* LIMIT n
Limit(s, n) == IF Len(s) <= n THEN s ELSE SubSeq(s, 1, n)

\* WHERE book_id = ? AND chapter = ? ORDER BY verse
ChapterRows(tbl, book, chapter) ==
    OrderBy({r \in tbl : r.book_id = book /\ r.chapter = chapter}, FALSE)

\* WHERE book_id = ? AND chapter = ? AND verse = ? ; fetchone()
SingleVerseRows(tbl, book, chapter, verse) ==
    OrderBy({r \in tbl : r.book_id = book /\ r.chapter = chapter /\ r.verse = verse}, FALSE)

\* a one-chapter WHERE clause that drops the upper verse bound's equality
WhereSameChapter_ExclusiveEnd(r, book, start_chapter, start_verse, end_verse) ==
    /\ r.book_id = book
    /\ r.chapter = start_chapter
    /\ r.verse >= start_verse /\ r.verse < end_verse

\* the WHERE clause of the one-chapter branch: verse BETWEEN ? AND ?
WhereSameChapter(r, book, start_chapter, start_verse, end_verse) ==
    /\ r.book_id = book
    /\ r.chapter = start_chapter
    /\ r.verse >= start_verse /\ r.verse <= end_verse

\* an across-chapters WHERE clause whose middle range takes in the start chapter
WhereAcrossChapters_InclusiveMiddle(r, book, start_chapter, start_verse, end_chapter, end_verse) ==
    /\ r.book_id = book
    /\ \/ (r.chapter = start_chapter /\ r.verse >= start_verse)
       \/ (r.chapter >= start_chapter /\ r.chapter < end_chapter)
       \/ (r.chapter = end_chapter /\ r.verse <= end_verse)

\* the WHERE clause of the branch across chapters
WhereAcrossChapters(r, book, start_chapter, start_verse, end_chapter, end_verse) ==
    /\ r.book_id = book
    /\ \/ (r.chapter = start_chapter /\ r.verse >= start_verse)
       \/ (r.chapter > start_chapter /\ r.chapter < end_chapter)
       \/ (r.chapter = end_chapter /\ r.verse <= end_verse)

\* a get_passage whose across-chapters branch orders by verse alone
PassageRows_OrderByVerse(tbl, book, start_chapter, start_verse, end_chapter, end_verse) ==
    IF start_chapter = end_chapter
    THEN OrderBy({r \in tbl :
                    WhereSameChapter(r, book, start_chapter, start_verse, end_verse)},
                 FALSE)
    ELSE OrderBy({r \in tbl :
                    WhereAcrossChapters(r, book, start_chapter, start_verse,
                                        end_chapter, end_verse)},
                 FALSE)

\* rows = cursor.fetchall() of get_passage
PassageRows(tbl, book, start_chapter, start_verse, end_chapter, end_verse) ==
    IF start_chapter = end_chapter
    THEN OrderBy({r \in tbl :
                    WhereSameChapter(r, book, start_chapter, start_verse, end_verse)},
                 FALSE)
    ELSE OrderBy({r \in tbl :
                    WhereAcrossChapters(r, book, start_chapter, start_verse,
                                        end_chapter, end_verse)},
                 TRUE)

NotFound(detail) == [status |-> 404, detail |-> detail, rows |-> <<>>, verses |-> <<>>]

Found(rows) == [status |-> 200, detail |-> "", rows |-> rows, verses |-> VerseList(rows)]

\* get_passage with a reversed chapter range answered as an empty passage
get_passage_EmptyWhenReversed(tbl, book, start_chapter, start_verse, end_chapter, end_verse) ==
    LET rows == PassageRows(tbl, book, start_chapter, start_verse, end_chapter, end_verse)
    IN  IF rows = <<>> \/ start_chapter > end_chapter
        THEN NotFound("Passage not found")
        ELSE Found(rows)

get_passage(tbl, book, start_chapter, start_verse, end_chapter, end_verse) ==
    LET rows == PassageRows(tbl, book, start_chapter, start_verse, end_chapter, end_verse)
    IN  IF rows = <<>> THEN NotFound("Passage not found") ELSE Found(rows)

get_verses_in_chapter(tbl, book_id, chapter) ==
    LET rows == ChapterRows(tbl, book_id, chapter)
    IN  IF rows = <<>> THEN NotFound("No verses found for given chapter") ELSE Found(rows)

get_single_verse(tbl, book_id, chapter, verse) ==
    LET rows == SingleVerseRows(tbl, book_id, chapter, verse)
    IN  IF rows = <<>> THEN NotFound("Verse not found") ELSE Found(<<rows[1]>>)

RECURSIVE Like(_, _)
\* sqlite's  text LIKE pattern : % matches any run of characters, _ any one
\* character, letters match without regard to case, nothing escapes
Like(pattern, text) ==
    IF pattern = <<>> THEN text = <<>>
    ELSE IF Head(pattern) = "%"
         THEN \/ Like(Tail(pattern), text)
              \/ (text # <<>> /\ Like(pattern, Tail(text)))
         ELSE /\ text # <<>>
              /\ \/ Head(pattern) = "_"
                 \/ LowerChar(Head(pattern)) = LowerChar(Head(text))
              /\ Like(Tail(pattern), Tail(text))

\* params = [f"%{query}%"]
LikeParam(query) == <<"%">> \o query \o <<"%">>

\* Optional[int]: None is the empty set, a value x is {x}
None == {}

Some(x) == {x}

\* WHERE text LIKE ? [AND book_id = ?]
SearchMatches(tbl, query, book) ==
    {r \in tbl : Like(LikeParam(query), r.text) /\ (book # None => r.book_id \in book)}

\* the responses search_verses may give: ORDER BY chapter, verse LIMIT 100
search_verses(tbl, query, book) ==
    { Found(Limit(s, SearchLimit)) : s \in OrderedSeqs(SearchMatches(tbl, query, book)) }

----------------------------------------------------------------------------
(* Initial values of the parts of the state a specification leaves alone *)

IdleReq == [pc |-> "idle"]

NoCall == [op |-> "none"]

QuietServer ==
    /\ req = [t \in Threads |-> IdleReq]
    /\ nOpen = 0

NoFiles == files = [f \in FileNames |-> "absent"]

EmptyStore ==
    /\ ANNOTATIONS = <<>>
    /\ annotation_id_counter = 1

----------------------------------------------------------------------------
(* The passage queries over every small verses table *)

Books == {1, 2}

Chapters == 1..MaxChapter

VerseNumbers == 1..MaxVerse

\* book 2 holds the same two verses in every table
Book2Rows == {Row(2, 1, 1, CoordText(2, 1, 1)), Row(2, 2, 2, CoordText(2, 2, 2))}

\* book 1 holds any subset of the coordinates: chapters and verses may be missing
PassageTables ==
    { {Row(1, cv[1], cv[2], CoordText(1, cv[1], cv[2])) : cv \in S} \cup Book2Rows :
        S \in SUBSET (Chapters \X VerseNumbers) }

InitPassage ==
    /\ verses \in PassageTables
    /\ call = NoCall
    /\ NoFiles /\ QuietServer /\ EmptyStore

\* GET /passage on a readable dataset (the connection is opened and closed
\* within the request)
CallPassage ==
    /\ call.op = "none"
    /\ \E book \in Books, sc \in Chapters, ec \in Chapters,
          sv \in VerseNumbers, ev \in VerseNumbers :
          call' = [op |-> "get_passage", book |-> book,
                   start_chapter |-> sc, start_verse |-> sv,
                   end_chapter |-> ec, end_verse |-> ev,
                   response |-> get_passage(verses, book, sc, sv, ec, ev)]
    /\ UNCHANGED <<files, req, nOpen, verses, ANNOTATIONS, annotation_id_counter>>

\* GET /translations/{id}/books/{book_id}/chapters/{chapter}/verses
CallVersesInChapter ==
    /\ call.op = "none"
    /\ \E book \in Books, c \in Chapters :
          call' = [op |-> "get_verses_in_chapter", book |-> book, chapter |-> c,
                   response |-> get_verses_in_chapter(verses, book, c)]
    /\ UNCHANGED <<files, req, nOpen, verses, ANNOTATIONS, annotation_id_counter>>

NextPassage == CallPassage \/ CallVersesInChapter

SpecPassage == InitPassage /\ [][NextPassage]_vars

----------------------------------------------------------------------------
(* Text search over every small pair of verse texts *)

TextAlphabet == {"a", "A", "b"}

QueryAlphabet == {"a", "A", "%", "_"}

StringsOver(alphabet, lo, hi) == UNION {[1..k -> alphabet] : k \in lo..hi}

Texts == StringsOver(TextAlphabet, 1, MaxTextLen)

Queries == StringsOver(QueryAlphabet, 0, MaxQueryLen)

\* one verse in each of two books, at the same chapter and verse number
SearchTables == { {Row(1, 1, 1, t1), Row(2, 1, 1, t2)} : t1 \in Texts, t2 \in Texts }

InitSearch ==
    /\ verses \in SearchTables
    /\ call = NoCall
    /\ NoFiles /\ QuietServer /\ EmptyStore

\* GET /search on a readable dataset
CallSearch ==
    /\ call.op = "none"
    /\ \E query \in Queries, book \in {None, Some(1), Some(2)} :
          \E response \in search_verses(verses, query, book) :
              call' = [op |-> "search_verses", query |-> query, book |-> book,
                       response |-> response]
    /\ UNCHANGED <<files, req, nOpen, verses, ANNOTATIONS, annotation_id_counter>>

NextSearch == CallSearch

SpecSearch == InitSearch /\ [][NextSearch]_vars

----------------------------------------------------------------------------
(* The remaining single-translation queries *)

Genesis == <<"G","e","n","e","s","i","s">>
Exodus == <<"E","x","o","d","u","s">>

\* rows of a dataset's <ID>_books table
BooksTable == {[id |-> 1, name |-> Genesis], [id |-> 2, name |-> Exodus]}

RECURSIVE OrderById(_)
\* ORDER BY id
OrderById(S) ==
    IF S = {} THEN <<>>
    ELSE LET m == CHOOSE r \in S : \A o \in S : r.id <= o.id
         IN  <<m>> \o OrderById(S \ {m})

get_books_for_translation(books) ==
    [status |-> 200, detail |-> "", body |-> OrderById(books)]

\* SELECT chapter, COUNT(*) ... WHERE book_id = ? GROUP BY chapter
get_chapter_counts(tbl, book_id) ==
    LET ofBook == {r \in tbl : r.book_id = book_id}
        chapters == {r.chapter : r \in ofBook}
    IN  IF chapters = {}
        THEN [status |-> 404, detail |-> "No chapters found for given book"]
        ELSE [status |-> 200, detail |-> "",
              body |-> [c \in chapters |-> Cardinality({r \in ofBook : r.chapter = c})]]

get_translation_stats(books, tbl) ==
    [status |-> 200, detail |-> "",
     body |-> [books_count |-> Cardinality(books),
               chapters_count |-> Cardinality({r.chapter : r \in tbl}),
               verses_count |-> Cardinality(tbl)]]

\* the verse lookup of get_verse_quote_image; the picture itself is not modelled
get_verse_quote_image(tbl, book_id, chapter, verse) ==
    LET rows == SingleVerseRows(tbl, book_id, chapter, verse)
    IN  IF rows = <<>> THEN [status |-> 404, detail |-> "Verse not found"]
        ELSE [status |-> 200, detail |-> "", body |-> "image/png"]

----------------------------------------------------------------------------
(* The chapter aggregates over every small verses table *)

\* GET /translations/{id}/stats on a readable dataset
CallStats ==
    /\ call.op = "none"
    /\ call' = [op |-> "get_translation_stats",
                response |-> get_translation_stats(BooksTable, verses)]
    /\ UNCHANGED <<files, req, nOpen, verses, ANNOTATIONS, annotation_id_counter>>

\* GET /translations/{id}/books/{book_id}/chapters on a readable dataset
CallChapterCounts ==
    /\ call.op = "none"
    /\ \E book_id \in Books :
          call' = [op |-> "get_chapter_counts", book_id |-> book_id,
                   response |-> get_chapter_counts(verses, book_id)]
    /\ UNCHANGED <<files, req, nOpen, verses, ANNOTATIONS, annotation_id_counter>>

NextStats == CallStats \/ CallChapterCounts

SpecStats == InitPassage /\ [][NextStats]_vars

----------------------------------------------------------------------------
(* Requests: dataset resolution and the connection life cycle *)

Kjv == <<"k", "j", "v">>
Asv == <<"a", "s", "v">>
AsvLongS == <<"a", LongS, "v">>
DotSlashKjv == <<".", "/", "k", "j", "v">>

\* the translation identifiers clients send
Idents == {Kjv, Asv, AsvLongS, DotSlashKjv}

\* the operations that start with conn = get_translation_db(translation_id)
ScopedOps ==
    {"get_books_for_translation", "get_chapter_counts", "get_verses_in_chapter",
     "get_single_verse", "search_verses", "get_passage", "get_translation_stats",
     "get_verse_quote_image"}

\* (book, chapter, verse) of a request: one coordinate the datasets hold, one
\* of a book they do not hold
RequestCoords == {<<1, 1, 1>>, <<3, 1, 1>>}

\* the verses every readable dataset of the directory holds
ServerVerses ==
    { Row(cv[1], cv[2], cv[3], CoordText(cv[1], cv[2], cv[3])) :
        cv \in {<<1, 1, 1>>, <<1, 1, 2>>, <<1, 2, 1>>, <<2, 1, 1>>} }

\* a get_db_connection that opens whatever path it is given
get_db_connection_NoExistsCheck(db_path) ==
    IF PathExists(db_path) /\ files[FileAt(db_path)] = "unopenable"
    THEN "connect_error"
    ELSE "connected"

\* get_db_connection: "not_found" is the HTTPException of line 50,
\* "connect_error" an sqlite3.Error raised by sqlite3.connect
get_db_connection(db_path) ==
    IF ~PathExists(db_path) THEN "not_found"
    ELSE IF files[FileAt(db_path)] = "unopenable" THEN "connect_error"
    ELSE "connected"

get_translation_db(translation_id) == get_db_connection(DbFileName(translation_id))

\* HTTPException(status_code=404, detail=f"Database file {db_path} not found")
DbNotFound == [status |-> 404, detail |-> "Database file not found"]

\* an exception no handler catches: the framework answers 500
Unhandled == [status |-> 500, detail |-> "Internal Server Error"]

\* except sqlite3.Error as e: raise HTTPException(status_code=500, ...)
SqlError == [status |-> 500, detail |-> "Error fetching"]

\* table_name = f"{translation_id.upper()}_books"
BooksTableName(translation_id) == Upper(translation_id) \o <<"_","b","o","o","k","s">>

\* the tables an operation's statements name, in the order they are executed
StatementTables(op, id) ==
    CASE op = "get_books_for_translation" -> <<BooksTableName(id)>>
      [] op = "get_translation_stats" ->
            <<BooksTableName(id), VersesTable(id), VersesTable(id)>>
      [] op = "get_verse_quote_image" -> <<VersesTable(id), BooksTableName(id)>>
      [] OTHER -> <<VersesTable(id)>>

\* whether every statement of the operation runs on the dataset file
StatementsRun(op, id) ==
    \A i \in DOMAIN StatementTables(op, id) :
        ExecuteOk(FileAt(DbFileName(id)), StatementTables(op, id)[i])

\* a statement handed to cursor.execute: the identifier its table name was
\* interpolated from, and that table name
Statement(id, table_name) == [id |-> id, table_name |-> table_name]

\* the statements handed to cursor.execute: all of them, or the first when it raises
Executed(op, id) ==
    IF StatementsRun(op, id)
    THEN {Statement(id, StatementTables(op, id)[i]) : i \in DOMAIN StatementTables(op, id)}
    ELSE {Statement(id, StatementTables(op, id)[1])}

\* what a scoped operation answers once its statements have run
ScopedResponses(op, tbl, book, chapter, verse) ==
    CASE op = "get_books_for_translation" -> {get_books_for_translation(BooksTable)}
      [] op = "get_chapter_counts" -> {get_chapter_counts(tbl, book)}
      [] op = "get_verses_in_chapter" -> {get_verses_in_chapter(tbl, book, chapter)}
      [] op = "get_single_verse" -> {get_single_verse(tbl, book, chapter, verse)}
      [] op = "search_verses" ->
            search_verses(tbl, CoordText(book, chapter, verse), Some(book))
      [] op = "get_passage" -> {get_passage(tbl, book, chapter, verse, chapter, verse)}
      [] op = "get_translation_stats" -> {get_translation_stats(BooksTable, tbl)}
      [] op = "get_verse_quote_image" ->
            {get_verse_quote_image(tbl, book, chapter, verse)}

InitServer ==
    /\ files \in [FileNames -> DatasetKinds \cup {"absent", "other"}]
    /\ files[NotesTxt] = "other"
    /\ files[KjvDb] \in {"good", "absent"}
    /\ files[AsvDb] \in DatasetKinds \cup {"absent"}
    /\ QuietServer
    /\ verses = ServerVerses
    /\ call = NoCall
    /\ EmptyStore

Init == InitServer

ServerUnchanged == UNCHANGED <<files, verses, call, ANNOTATIONS, annotation_id_counter>>

\* a scoped operation up to conn = get_translation_db(translation_id)
StartScoped(t) ==
    /\ req[t].pc = "idle"
    /\ \E op \in ScopedOps, id \in Idents, cv \in RequestCoords :
          LET base == [op |-> op, id |-> id, book |-> cv[1], chapter |-> cv[2],
                       verse |-> cv[3], executed |-> {}]
              got == get_translation_db(id)
          IN  CASE got = "not_found" ->
                     /\ req' = [req EXCEPT ![t] =
                                  base @@ [pc |-> "done", conn |-> "unset",
                                           response |-> DbNotFound]]
                     /\ UNCHANGED nOpen
                [] got = "connect_error" ->
                     /\ req' = [req EXCEPT ![t] =
                                  base @@ [pc |-> "done", conn |-> "unset",
                                           response |-> Unhandled]]
                     /\ UNCHANGED nOpen
                [] got = "connected" ->
                     /\ req' = [req EXCEPT ![t] =
                                  base @@ [pc |-> "opened", conn |-> "open"]]
                     /\ nOpen' = nOpen + 1
    /\ ServerUnchanged

\* whether the try block can raise something other than sqlite3.Error and
\* HTTPException: get_verse_quote_image indexes words[0] of the verse text and
\* draws and encodes the picture inside its try block
MayCrash(op) == IF op = "get_verse_quote_image" THEN BOOLEAN ELSE {FALSE}

\* a scoped operation whose conn.close() runs only when the try block succeeds
ExecScoped_CloseOnSuccessOnly(t) ==
    /\ req[t].pc = "opened"
    /\ LET r == req[t]
           ran == StatementsRun(r.op, r.id)
           done == [op |-> r.op, id |-> r.id, book |-> r.book, chapter |-> r.chapter,
                    verse |-> r.verse, executed |-> Executed(r.op, r.id), pc |-> "done"]
       IN  \E crash \in MayCrash(r.op) :
             \E response \in (IF ~ran THEN {SqlError}
                              ELSE IF crash THEN {Unhandled}
                              ELSE ScopedResponses(r.op, verses, r.book, r.chapter, r.verse)) :
                /\ req' = [req EXCEPT ![t] =
                             done @@ [response |-> response,
                                      conn |-> IF response.status = 200
                                               THEN "closed" ELSE "open"]]
                /\ nOpen' = IF response.status = 200 THEN nOpen - 1 ELSE nOpen
    /\ ServerUnchanged

\* a scoped operation from cursor.execute to the end: the try block, its
\* except sqlite3.Error clause and  finally: conn.close()
ExecScoped(t) ==
    /\ req[t].pc = "opened"
    /\ LET r == req[t]
           ran == StatementsRun(r.op, r.id)
           done == [op |-> r.op, id |-> r.id, book |-> r.book, chapter |-> r.chapter,
                    verse |-> r.verse, executed |-> Executed(r.op, r.id), pc |-> "done"]
       IN  \E crash \in MayCrash(r.op) :
             \E response \in (IF ~ran THEN {SqlError}
                              ELSE IF crash THEN {Unhandled}
                              ELSE ScopedResponses(r.op, verses, r.book, r.chapter, r.verse)) :
                req' = [req EXCEPT ![t] =
                          done @@ [response |-> response, conn |-> "closed"]]
    /\ nOpen' = nOpen - 1
    /\ ServerUnchanged

\* the response leaves the worker
Return(t) ==
    /\ req[t].pc = "done"
    /\ req' = [req EXCEPT ![t] = IdleReq]
    /\ UNCHANGED nOpen
    /\ ServerUnchanged

----------------------------------------------------------------------------
(* compare_translations *)

\* if verse:  (None and 0 are false)
Truthy(verse) == verse # None /\ verse # Some(0)

\* result[t.upper()] of one side whose statement ran
CompareEntry(tbl, book, chapter, verse) ==
    IF Truthy(verse)
    THEN LET rows == SingleVerseRows(tbl, book, chapter, CHOOSE v \in verse : TRUE)
         IN  IF rows = <<>> THEN [kind |-> "text", value |-> "Verse not found"]
             ELSE [kind |-> "verse", value |-> Verse(rows[1])]
    ELSE [kind |-> "rows", value |-> ChapterRows(tbl, book, chapter)]

\* result[t.upper()] = f"Error: {e}"
CompareError == [kind |-> "error", value |-> "Error"]

\* the dict with key |-> entry set
Put(result, key, entry) ==
    [k \in DOMAIN result \cup {key} |-> IF k = key THEN entry ELSE result[k]]

EmptyDict == [k \in {} |-> {}]

\* r with conn = get_translation_db(t) done for side r.side: the request goes
\* on with an open connection, or ends with the exception that call raised
OpenSide(r) ==
    LET got == get_translation_db(r.ids[r.side])
    IN  CASE got = "not_found" ->
               r @@ [pc |-> "done", conn |-> "unset", response |-> DbNotFound]
          [] got = "connect_error" ->
               r @@ [pc |-> "done", conn |-> "unset", response |-> Unhandled]
          [] got = "connected" ->
               r @@ [pc |-> "cmp_opened", conn |-> "open"]

Opens(r) == IF r.pc = "cmp_opened" THEN 1 ELSE 0

\* compare_translations up to the first conn = get_translation_db(t)
StartCompare(t) ==
    /\ req[t].pc = "idle"
    /\ \E id1 \in Idents, id2 \in Idents, cv \in RequestCoords,
          verse \in {None, Some(1)} :
          LET r == OpenSide([op |-> "compare_translations", ids |-> <<id1, id2>>,
                             book |-> cv[1], chapter |-> cv[2], verse |-> verse,
                             side |-> 1, result |-> EmptyDict, executed |-> {}])
          IN  /\ req' = [req EXCEPT ![t] = r]
              /\ nOpen' = nOpen + Opens(r)
    /\ ServerUnchanged

\* one side of the loop from cursor.execute to conn.close(), then the next
\* side's get_translation_db, or return result after the second side
CompareSide(t) ==
    /\ req[t].pc = "cmp_opened"
    /\ LET r == req[t]
           id == r.ids[r.side]
           ran == ExecuteOk(FileAt(DbFileName(id)), VersesTable(id))
           entry == IF ran THEN CompareEntry(verses, r.book, r.chapter, r.verse)
                    ELSE CompareError
           after == [op |-> r.op, ids |-> r.ids, book |-> r.book,
                     chapter |-> r.chapter, verse |-> r.verse,
                     result |-> Put(r.result, Upper(id), entry),
                     executed |-> r.executed \cup {Statement(id, VersesTable(id))}]
           next == IF r.side = 1
                   THEN OpenSide(after @@ [side |-> 2])
                   ELSE after @@ [side |-> 2, pc |-> "done", conn |-> "closed",
                                  response |-> [status |-> 200, detail |-> ""]]
       IN  /\ req' = [req EXCEPT ![t] = next]
           /\ nOpen' = nOpen - 1 + Opens(next)
    /\ ServerUnchanged

----------------------------------------------------------------------------
(* get_all_translations *)

\* Translation(**dict(row)) of the catalog row of a dataset file
CatalogRow(file) ==
    LET stem == SubSeq(file, 1, Len(file) - Len(DotDb))
    IN  [translation |-> stem, title |-> stem, license |-> None]

\* lines 115-118 on an open connection: "append" a Translation, "skip" when
\* fetchone() gives None, "raise" when execute or the Translation model raises
CatalogRead(kind) ==
    CASE kind = "good" -> "append"
      [] kind = "emptycat" -> "skip"
      [] OTHER -> "raise"

\* translations_list = [] ; for filename in os.listdir(BASE_DB_PATH):
StartList(t) ==
    /\ req[t].pc = "idle"
    /\ req' = [req EXCEPT ![t] =
                 [pc |-> "list_loop", op |-> "get_all_translations", todo |-> ListDir,
                  translations_list |-> <<>>, conn |-> "unset", visited |-> {}]]
    /\ UNCHANGED nOpen
    /\ ServerUnchanged

\* the next filename of the listing (in whatever order listdir gives them):
\* the suffix test and conn = get_db_connection(db_path); when that raises, the
\* except clause swallows it and finally closes the connection of an earlier
\* round, if any, once more
ListVisit(t) ==
    /\ req[t].pc = "list_loop"
    /\ \E filename \in req[t].todo :
          LET r == [req[t] EXCEPT !.todo = @ \ {filename}]
          IN  IF ~EndsWith(filename, DotDb)
              THEN /\ req' = [req EXCEPT ![t] = r]
                   /\ UNCHANGED nOpen
              ELSE IF get_db_connection(filename) = "connected"
              THEN /\ req' = [req EXCEPT ![t] =
                                [r EXCEPT !.pc = "list_read", !.conn = "open",
                                          !.visited = @ \cup {filename}]
                                @@ [filename |-> filename]]
                   /\ nOpen' = nOpen + 1
              ELSE /\ req' = [req EXCEPT ![t] =
                                [r EXCEPT !.visited = @ \cup {filename},
                                          !.conn = IF @ = "unset" THEN "unset"
                                                   ELSE "closed"]]
                   /\ UNCHANGED nOpen
    /\ ServerUnchanged

\* a scan that lets a failing dataset's exception out of the loop
ListRead_AbortOnError(t) ==
    /\ req[t].pc = "list_read"
    /\ LET r == req[t]
           outcome == CatalogRead(files[r.filename])
           list == IF outcome = "append"
                   THEN Append(r.translations_list, CatalogRow(r.filename))
                   ELSE r.translations_list
           rest == [op |-> r.op, todo |-> r.todo, translations_list |-> list,
                    conn |-> "closed", visited |-> r.visited]
       IN  req' = [req EXCEPT ![t] =
                     IF outcome = "raise"
                     THEN rest @@ [pc |-> "done", response |-> Unhandled]
                     ELSE rest @@ [pc |-> "list_loop"]]
    /\ nOpen' = nOpen - 1
    /\ ServerUnchanged

\* lines 113-124 on the connection just opened: read the catalog row, append
\* it, swallow any exception, close the connection
ListRead(t) ==
    /\ req[t].pc = "list_read"
    /\ LET r == req[t]
           outcome == CatalogRead(files[r.filename])
           list == IF outcome = "append"
                   THEN Append(r.translations_list, CatalogRow(r.filename))
                   ELSE r.translations_list
       IN  req' = [req EXCEPT ![t] =
                     [pc |-> "list_loop", op |-> r.op, todo |-> r.todo,
                      translations_list |-> list, conn |-> "closed",
                      visited |-> r.visited]]
    /\ nOpen' = nOpen - 1
    /\ ServerUnchanged

\* lines 125-127, after the loop
ListReturn(t) ==
    /\ req[t].pc = "list_loop"
    /\ req[t].todo = {}
    /\ LET r == req[t]
       IN  req' = [req EXCEPT ![t] =
                     [pc |-> "done", op |-> r.op, todo |-> {},
                      translations_list |-> r.translations_list, conn |-> r.conn,
                      visited |-> r.visited,
                      response |-> IF r.translations_list = <<>>
                                   THEN [status |-> 404,
                                         detail |-> "No translations found"]
                                   ELSE [status |-> 200, detail |-> "",
                                         body |-> r.translations_list]]]
    /\ UNCHANGED nOpen
    /\ ServerUnchanged

\* one step of the worker thread t
ServerStep(t) ==
    \/ StartScoped(t) \/ ExecScoped(t)
    \/ StartCompare(t) \/ CompareSide(t)
    \/ StartList(t) \/ ListVisit(t) \/ ListRead(t) \/ ListReturn(t)
    \/ Return(t)

\* requests served one at a time
Next == ServerStep("w1")

Spec == Init /\ [][Next]_vars

\* requests served by all workers at once, over the directories in which the
\* second dataset fails one way or another
InitConcurrent ==
    /\ InitServer
    /\ files[KjvDb] = "good"
    /\ files[AsvDb] \in {"corrupt", "unopenable", "absent"}

NextConcurrent == \E t \in Threads : ServerStep(t)

SpecConcurrent == InitConcurrent /\ [][NextConcurrent]_vars

----------------------------------------------------------------------------
(* The annotation store under concurrent POST /annotations *)

\* str(book) for a one-digit book id
Str(n) == <<Digits[n + 1]>>

InitAnnotations ==
    /\ EmptyStore
    /\ QuietServer
    /\ NoFiles
    /\ verses = {}
    /\ call = NoCall

\* add_annotation, lines 438-445: the dict is built from the counter's value
AddBuild(t) ==
    /\ req[t].pc = "idle"
    /\ Len(ANNOTATIONS) + Cardinality({u \in Threads : req[u].pc = "append"})
         < MaxAnnotations
    /\ \E verse \in VerseNumbers :
          req' = [req EXCEPT ![t] =
                    [pc |-> "append", op |-> "add_annotation",
                     new_annotation |->
                        [id |-> annotation_id_counter, translation |-> Upper(Kjv),
                         book |-> Str(1), chapter |-> 1, verse |-> verse,
                         note |-> <<"n">>]]]
    /\ UNCHANGED <<files, nOpen, verses, call, ANNOTATIONS, annotation_id_counter>>

\* line 446: ANNOTATIONS.append(new_annotation)
AddAppend(t) ==
    /\ req[t].pc = "append"
    /\ ANNOTATIONS' = Append(ANNOTATIONS, req[t].new_annotation)
    /\ req' = [req EXCEPT ![t].pc = "load"]
    /\ UNCHANGED <<files, nOpen, verses, call, annotation_id_counter>>

\* line 447, annotation_id_counter += 1: the global is read ...
AddLoad(t) ==
    /\ req[t].pc = "load"
    /\ req' = [req EXCEPT ![t] =
                 [pc |-> "store", op |-> "add_annotation",
                  new_annotation |-> req[t].new_annotation,
                  loaded |-> annotation_id_counter]]
    /\ UNCHANGED <<files, nOpen, verses, call, ANNOTATIONS, annotation_id_counter>>

\* add_annotation without the increment of line 447
AddStore_NoIncrement(t) ==
    /\ req[t].pc = "store"
    /\ annotation_id_counter' = req[t].loaded
    /\ req' = [req EXCEPT ![t] = IdleReq]
    /\ UNCHANGED <<files, nOpen, verses, call, ANNOTATIONS>>

\* ... and written back one higher; line 448 returns the annotation
AddStore(t) ==
    /\ req[t].pc = "store"
    /\ annotation_id_counter' = req[t].loaded + 1
    /\ req' = [req EXCEPT ![t] = IdleReq]
    /\ UNCHANGED <<files, nOpen, verses, call, ANNOTATIONS>>

NextAnnotations ==
    \E t \in Threads : AddBuild(t) \/ AddAppend(t) \/ AddLoad(t) \/ AddStore(t)

SpecAnnotations == InitAnnotations /\ [][NextAnnotations]_vars

----------------------------------------------------------------------------
(* The annotation store under calls made one after another *)

\* int(a["book"]) for the one-digit string str(book) stored
int(s) == IndexIn(s[1], Digits) - 1

\* the filters a client sends with GET /annotations
TranslationFilters == {None, Some(<<>>), Some(Kjv), Some(Asv)}

BookFilters == {None, Some(1), Some(2)}

ChapterFilters == {None, Some(1), Some(2)}

VerseFilters == {None} \cup {Some(v) : v \in VerseNumbers}

\* get_annotations, lines 460-469: each filter present builds a new list
get_annotations(translation, book, chapter, verse) ==
    LET ByTranslation(a) ==
            (translation # None /\ translation # Some(<<>>))
                => \E tr \in translation : a.translation = Upper(tr)
        ByBook(a) == book # None => int(a.book) \in book
        ByChapter(a) == chapter # None => a.chapter \in chapter
        ByVerse(a) == verse # None => a.verse \in verse
    IN  SelectSeq(SelectSeq(SelectSeq(SelectSeq(ANNOTATIONS, ByTranslation),
                                      ByBook), ByChapter), ByVerse)

\* GET /annotations: the handler reads the store and returns the filtered list
GetAnnotations(t) ==
    /\ req[t].pc = "idle"
    /\ \E translation \in TranslationFilters, book \in BookFilters,
          chapter \in ChapterFilters, verse \in VerseFilters :
          req' = [req EXCEPT ![t] =
                    [pc |-> "done", op |-> "get_annotations",
                     response |-> get_annotations(translation, book, chapter, verse)]]
    /\ UNCHANGED <<files, nOpen, verses, call, ANNOTATIONS, annotation_id_counter>>

\* one client: every call returns before the next one starts
NextSequential ==
    \/ AddBuild("w1")
    \/ AddAppend("w1")
    \/ AddLoad("w1")
    \/ AddStore("w1")
    \/ GetAnnotations("w1")
    \/ Return("w1")

SpecSequential == InitAnnotations /\ [][NextSequential]_vars

----------------------------------------------------------------------------
(* Process start: uppercase.py renames the base directory, then the app serves *)

\* GLOBAL_DB_FILE, below BASE_DB_PATH
GLOBAL_DB_FILE == <<"t","r","a","n","s","l","a","t","i","o","n","s",".","d","b">>

LowerKjvDb == <<"k","j","v",".","d","b">>
LowerAsvDb == <<"a","s","v",".","d","b">>
OldDir == <<"o","l","d">>

\* the position of the last "." of a name, 0 when it has none
LastDot(name) ==
    IF \E i \in DOMAIN name : name[i] = "."
    THEN CHOOSE i \in DOMAIN name :
            name[i] = "." /\ \A k \in DOMAIN name : name[k] = "." => k <= i
    ELSE 0

\* os.path.splitext(filename): the extension starts at the last dot, unless
\* only dots precede it
splitext(filename) ==
    LET d == LastDot(filename)
    IN  IF d > 0 /\ \E i \in 1..(d - 1) : filename[i] # "."
        THEN <<SubSeq(filename, 1, d - 1), SubSeq(filename, d, Len(filename))>>
        ELSE <<filename, <<>>>>

\* new_file_name = file_name.upper() + file_extension
new_file_name(filename) == Upper(splitext(filename)[1]) \o splitext(filename)[2]

\* the names a base directory is installed with
InstalledNames == {LowerKjvDb, KjvDb, LowerAsvDb, AsvDb, GLOBAL_DB_FILE, OldDir}

StartupNames == InstalledNames \cup {new_file_name(n) : n \in InstalledNames}

\* What a name of the directory may also hold at process start:
\*   shared  the global dataset with the translations and cross_references tables
\*   dir     a subdirectory
StartupKinds == DatasetKinds \cup {"shared", "dir"}

\* os.path.isfile(old_file_path)
isfile(filename) == files[filename] \notin {"absent", "dir"}

\* os.rename(old, new) raises when a file is renamed onto a directory
RenameRaises(old, new) == old # new /\ files[new] = "dir"

\* os.rename(old, new) on POSIX: an existing file at new is silently replaced
os_rename(old, new) ==
    IF old = new THEN files
    ELSE [files EXCEPT ![new] = files[old], ![old] = "absent"]

\* rows of the cross_references table of the global dataset
CrossReferences ==
    { [from_book |-> Str(1), from_chapter |-> 1, from_verse |-> 1,
       to_book |-> Str(2), to_chapter |-> 1, to_verse_start |-> 1,
       to_verse_end |-> 1, votes |-> 3],
      [from_book |-> Str(1), from_chapter |-> 1, from_verse |-> 1,
       to_book |-> Str(2), to_chapter |-> 2, to_verse_start |-> 2,
       to_verse_end |-> 2, votes |-> 7] }

RECURSIVE OrderByVotesDesc(_)
\* ORDER BY votes DESC
OrderByVotesDesc(S) ==
    IF S = {} THEN <<>>
    ELSE LET m == CHOOSE r \in S : \A o \in S : r.votes >= o.votes
         IN  <<m>> \o OrderByVotesDesc(S \ {m})

\* get_cross_references, lines 330-350
get_cross_references(book_id, chapter, verse) ==
    LET got == get_db_connection(GLOBAL_DB_FILE)
        rows == OrderByVotesDesc(
                    {r \in CrossReferences :
                        /\ r.from_book = Str(book_id)
                        /\ r.from_chapter = chapter
                        /\ r.from_verse = verse})
    IN  CASE got = "not_found" -> DbNotFound
          [] got = "connect_error" -> Unhandled
          [] OTHER ->
               IF files[FileAt(GLOBAL_DB_FILE)] # "shared" THEN SqlError
               ELSE IF rows = <<>>
                    THEN [status |-> 404, detail |-> "No cross references found"]
                    ELSE [status |-> 200, detail |-> "", body |-> rows]

\* the script's process at its first line; `before` is the directory it starts on
ScriptStart(run) ==
    [op |-> "uppercase.py", pc |-> "listdir", listing |-> {}, before |-> files,
     run |-> run]

InitStartup ==
    /\ files \in [StartupNames -> StartupKinds \cup {"absent"}]
    /\ files[LowerKjvDb] \in {"good", "absent"}
    /\ files[KjvDb] \in {"good", "emptycat", "absent"}
    /\ files[LowerAsvDb] \in {"good", "absent"}
    /\ files[AsvDb] \in {"dir", "absent"}
    /\ files[GLOBAL_DB_FILE] \in {"shared", "absent"}
    /\ files[OldDir] \in {"dir", "absent"}
    /\ \A n \in StartupNames \ InstalledNames : files[n] = "absent"
    /\ call = ScriptStart(1)
    /\ QuietServer
    /\ verses = {}
    /\ EmptyStore

\* uppercase.py line 6: os.listdir(BASE_DB_PATH) is read once, before the loop
ScriptListdir ==
    /\ call.op = "uppercase.py"
    /\ call.pc = "listdir"
    /\ call' = [call EXCEPT !.pc = "loop", !.listing = ListDir]
    /\ UNCHANGED <<files, req, nOpen, verses, ANNOTATIONS, annotation_id_counter>>

\* uppercase.py lines 6-22: one iteration of the loop, in the order of the listing
\* (which the operating system chooses)
ScriptRename ==
    /\ call.op = "uppercase.py"
    /\ call.pc = "loop"
    /\ \E filename \in call.listing :
          IF ~isfile(filename)
          THEN /\ call' = [call EXCEPT !.listing = @ \ {filename}]
               /\ UNCHANGED files
          ELSE IF RenameRaises(filename, new_file_name(filename))
          THEN /\ call' = [call EXCEPT !.pc = "raised"]
               /\ UNCHANGED files
          ELSE /\ files' = os_rename(filename, new_file_name(filename))
               /\ call' = [call EXCEPT !.listing = @ \ {filename}]
    /\ UNCHANGED <<req, nOpen, verses, ANNOTATIONS, annotation_id_counter>>

\* main.py lines 17-24: the script has ended, with returncode 0 or with a
\* CalledProcessError that is caught; the app is created either way
ScriptExit ==
    /\ call.op = "uppercase.py"
    /\ \/ call.pc = "loop" /\ call.listing = {}
       \/ call.pc = "raised"
    /\ call' = [op |-> "serving", before |-> call.before, run |-> call.run,
                returncode |-> IF call.pc = "raised" THEN 1 ELSE 0]
    /\ UNCHANGED <<files, req, nOpen, verses, ANNOTATIONS, annotation_id_counter>>

\* GET .../verses/{verse}/crossreferences
CallCrossReferences ==
    /\ call.op = "serving"
    /\ \E book_id \in Books, chapter \in {1}, verse \in {1} :
          call' = [op |-> "get_cross_references", before |-> call.before,
                   run |-> call.run, returncode |-> call.returncode,
                   book_id |-> book_id,
                   response |-> get_cross_references(book_id, chapter, verse)]
    /\ UNCHANGED <<files, req, nOpen, verses, ANNOTATIONS, annotation_id_counter>>

\* the process is started again on the directory the last start left
Restart ==
    /\ call.op = "serving"
    /\ call.run < MaxRuns
    /\ call' = ScriptStart(call.run + 1)
    /\ UNCHANGED <<files, req, nOpen, verses, ANNOTATIONS, annotation_id_counter>>

NextStartup ==
    \/ ScriptListdir
    \/ ScriptRename
    \/ ScriptExit
    \/ CallCrossReferences
    \/ Restart

SpecStartup == InitStartup /\ [][NextStartup]_vars

----------------------------------------------------------------------------
(* Properties of get_passage *)

\* (c1, v1) <= (c2, v2) in lexicographic order
CoordLE(c1, v1, c2, v2) == c1 < c2 \/ (c1 = c2 /\ v1 <= v2)

CoordLT(c1, v1, c2, v2) == c1 < c2 \/ (c1 = c2 /\ v1 < v2)

\* the verses of the called book between the two boundary coordinates
InPassageRange ==
    { r \in verses :
        /\ r.book_id = call.book
        /\ CoordLE(call.start_chapter, call.start_verse, r.chapter, r.verse)
        /\ CoordLE(r.chapter, r.verse, call.end_chapter, call.end_verse) }

SeqRange(s) == {s[i] : i \in DOMAIN s}

\* C5: with start_chapter <= end_chapter, get_passage returns exactly the verses
\* of the book whose (chapter, verse) lies between (start_chapter, start_verse)
\* and (end_chapter, end_verse) inclusive, each once, and answers 404
\* "Passage not found" exactly when there is none.
C5_PassageIsLexRange ==
    (call.op = "get_passage" /\ call.start_chapter <= call.end_chapter) =>
        /\ SeqRange(call.response.verses) = {Verse(r) : r \in InPassageRange}
        /\ Len(call.response.verses) = Cardinality(InPassageRange)
        /\ (call.response.status = 404) <=> (InPassageRange = {})
        /\ call.response.status \in {200, 404}
        /\ call.response.status = 404 => call.response.detail = "Passage not found"

\* a passage over three chapters that takes verses of the middle chapter and
\* leaves out an earlier verse of the start chapter
C5_Witness ==
    /\ call.op = "get_passage"
    /\ call.start_chapter + 1 < call.end_chapter
    /\ call.response.status = 200
    /\ \E i \in DOMAIN call.response.rows :
          /\ call.response.rows[i].chapter > call.start_chapter
          /\ call.response.rows[i].chapter < call.end_chapter
    /\ \E r \in verses :
          /\ r.book_id = call.book /\ r.chapter = call.start_chapter
          /\ r.verse < call.start_verse

StrictlyIncreasing(rows) ==
    \A i \in 1..(Len(rows) - 1) :
        CoordLT(rows[i].chapter, rows[i].verse, rows[i + 1].chapter, rows[i + 1].verse)

\* the result starts at the start boundary verse and ends at the end boundary
\* verse, when the book holds them
BoundaryVersesAtEnds ==
    LET rows == call.response.rows
        out  == call.response.verses
    IN  /\ \A r \in verses :
              (r.book_id = call.book /\ r.chapter = call.start_chapter
                 /\ r.verse = call.start_verse)
              => (Len(rows) > 0 /\ rows[1] = r /\ out[1] = Verse(r))
        /\ \A r \in verses :
              (r.book_id = call.book /\ r.chapter = call.end_chapter
                 /\ r.verse = call.end_verse)
              => (Len(rows) > 0 /\ rows[Len(rows)] = r /\ out[Len(out)] = Verse(r))

\* C6 as stated: every get_passage result across chapters
\* (start_chapter # end_chapter) is strictly increasing in (chapter, verse) and
\* has the boundary verses, when they exist, as its first and last elements.
C6_SpanningOrderedWithBoundaries ==
    (call.op = "get_passage" /\ call.start_chapter # call.end_chapter) =>
        /\ StrictlyIncreasing(call.response.rows)
        /\ BoundaryVersesAtEnds

\* C6 amended: a get_passage result with start_chapter < end_chapter is strictly
\* increasing in (chapter, verse) and has the boundary verses, when they exist,
\* as its first and last elements.
C6_ForwardSpanOrderedWithBoundaries ==
    (call.op = "get_passage" /\ call.start_chapter < call.end_chapter) =>
        /\ StrictlyIncreasing(call.response.rows)
        /\ Len(call.response.verses) = Len(call.response.rows)
        /\ BoundaryVersesAtEnds

\* a forward passage of at least three verses over at least two chapters whose
\* two boundary verses both exist
C6_Witness ==
    /\ call.op = "get_passage"
    /\ call.start_chapter < call.end_chapter
    /\ Len(call.response.rows) >= 3
    /\ \E r \in verses : r.book_id = call.book /\ r.chapter = call.start_chapter
                          /\ r.verse = call.start_verse
    /\ \E r \in verses : r.book_id = call.book /\ r.chapter = call.end_chapter
                          /\ r.verse = call.end_verse
    /\ call.start_verse > 1

\* get_verses_in_chapter of the called chapter, filtered to the verse bounds
ChapterFiltered ==
    LET InBounds(v) == v.verse >= call.start_verse /\ v.verse <= call.end_verse
    IN  SelectSeq(get_verses_in_chapter(verses, call.book, call.start_chapter).verses,
                  InBounds)

\* C7: get_passage with start_chapter = end_chapter = c returns the verse
\* sequence get_verses_in_chapter gives for c, filtered to
\* [start_verse, end_verse], and answers 404 exactly when that is empty.
C7_OneChapterPassageIsFilteredChapter ==
    (call.op = "get_passage" /\ call.start_chapter = call.end_chapter) =>
        /\ call.response.verses = ChapterFiltered
        /\ (call.response.status = 404) <=> (ChapterFiltered = <<>>)

\* a one-chapter passage that returns some but not all verses of its chapter
C7_Witness ==
    /\ call.op = "get_passage"
    /\ call.start_chapter = call.end_chapter
    /\ call.response.status = 200
    /\ Len(call.response.verses)
         < Len(get_verses_in_chapter(verses, call.book, call.start_chapter).verses)

\* the verses of the called book in the tail of the start chapter or in the
\* head of the end chapter
InEitherPartialChapter ==
    { r \in verses :
        /\ r.book_id = call.book
        /\ \/ r.chapter = call.start_chapter /\ r.verse >= call.start_verse
           \/ r.chapter = call.end_chapter /\ r.verse <= call.end_verse }

\* C12: get_passage called with start_chapter > end_chapter has an empty
\* result, so it fails with "Passage not found".
C12_ReversedPassageIsEmpty ==
    (call.op = "get_passage" /\ call.start_chapter > call.end_chapter) =>
        /\ call.response.status = 404
        /\ call.response.detail = "Passage not found"
        /\ call.response.verses = <<>>

\* C12 amended: get_passage called with start_chapter > end_chapter returns
\* exactly the verses of the book that are in start_chapter from start_verse on
\* or in end_chapter up to end_verse, each once, ordered by (chapter, verse);
\* it fails with "Passage not found" exactly when there is no such verse.
C12_ReversedPassageIsTwoPartialChapters ==
    (call.op = "get_passage" /\ call.start_chapter > call.end_chapter) =>
        /\ SeqRange(call.response.verses) = {Verse(r) : r \in InEitherPartialChapter}
        /\ Len(call.response.verses) = Cardinality(InEitherPartialChapter)
        /\ StrictlyIncreasing(call.response.rows)
        /\ (call.response.status = 404) <=> (InEitherPartialChapter = {})
        /\ call.response.status \in {200, 404}
        /\ call.response.status = 404 => call.response.detail = "Passage not found"

\* a reversed call that returned verses of both its start and its end chapter
C12_Witness ==
    /\ call.op = "get_passage"
    /\ call.start_chapter > call.end_chapter
    /\ call.response.status = 200
    /\ \E i, j \in DOMAIN call.response.rows :
          /\ call.response.rows[i].chapter = call.end_chapter
          /\ call.response.rows[j].chapter = call.start_chapter

----------------------------------------------------------------------------
(* Properties of the chapter aggregates *)

\* the number of chapters get_chapter_counts reports for a book (none on 404)
ChaptersReported(book_id) ==
    LET response == get_chapter_counts(verses, book_id)
    IN  IF response.status = 200 THEN Cardinality(DOMAIN response.body) ELSE 0

RECURSIVE SumOverBooks(_)
SumOverBooks(S) ==
    IF S = {} THEN 0
    ELSE LET b == CHOOSE x \in S : TRUE
         IN  ChaptersReported(b) + SumOverBooks(S \ {b})

\* C13: get_translation_stats reports as chapters_count the number of distinct
\* (book, chapter) pairs that have a verse, which is the sum over all books of
\* the number of chapters get_chapter_counts reports for the book.
C13_ChaptersCountIsTotalChapters ==
    call.op = "get_translation_stats" =>
        /\ call.response.body.chapters_count
              = Cardinality({<<r.book_id, r.chapter>> : r \in verses})
        /\ call.response.body.chapters_count
              = SumOverBooks({b.id : b \in BooksTable})

----------------------------------------------------------------------------
(* Properties of search_verses *)

\* str in str: query occurs in text as a substring
Contains(text, query) ==
    \E i \in 0..(Len(text) - Len(query)) : SubSeq(text, i + 1, i + Len(query)) = query

\* C8: every verse search_verses returns has a text that contains the query
\* string as a substring, whatever the query (LIKE wildcards included).
C8_SearchRowsContainQuery ==
    call.op = "search_verses" =>
        \A i \in DOMAIN call.response.verses :
            Contains(call.response.verses[i].text, call.query)

----------------------------------------------------------------------------
(* Properties of the annotation store *)

\* C2: under any interleaving of concurrent add_annotation calls, no two
\* annotations in the store have the same id.
C2_NoDuplicateIds ==
    \A i, j \in DOMAIN ANNOTATIONS :
        i # j => ANNOTATIONS[i].id # ANNOTATIONS[j].id

\* the store holds ids 1..n in insertion order, and the annotation an
\* add_annotation call is about to return is the last one stored
IdsAreOneToN ==
    /\ \A i \in DOMAIN ANNOTATIONS : ANNOTATIONS[i].id = i
    /\ req["w1"].pc \in {"load", "store"} =>
          /\ req["w1"].new_annotation.id = Len(ANNOTATIONS)
          /\ ANNOTATIONS[Len(ANNOTATIONS)] = req["w1"].new_annotation

\* a step keeps every stored annotation at its place, unmodified
StoreOnlyGrows ==
    /\ Len(ANNOTATIONS') >= Len(ANNOTATIONS)
    /\ SubSeq(ANNOTATIONS', 1, Len(ANNOTATIONS)) = ANNOTATIONS

\* only the append of an add_annotation call changes the store
OnlyAddChangesStore ==
    ANNOTATIONS' # ANNOTATIONS =>
        /\ req["w1"].pc = "append"
        /\ ANNOTATIONS' = Append(ANNOTATIONS, req["w1"].new_annotation)

\* C11: after any sequence of non-overlapping add_annotation and
\* get_annotations calls the store holds the annotations in insertion order
\* with ids exactly 1..n (the k-th add_annotation returns id k),
\* get_annotations never changes the store, and no stored annotation is ever
\* removed or modified.
C11_SequentialStoreIsAppendOnly ==
    [][IdsAreOneToN' /\ StoreOnlyGrows /\ OnlyAddChangesStore]_vars

\* two annotations are stored and a filtered get_annotations has returned one
C11_Witness ==
    /\ Len(ANNOTATIONS) >= 2
    /\ req["w1"].pc = "done"
    /\ req["w1"].op = "get_annotations"
    /\ Len(req["w1"].response) = 1

----------------------------------------------------------------------------
(* Properties of dataset resolution and of the connection life cycle *)

Finished(t) == req[t].pc = "done"

\* the dataset file of a translation identifier is in the base directory
DatasetPresent(id) == \E f \in ListDir : f = FileAt(DbFileName(id))

\* the dataset of a translation identifier is missing, cannot be opened, or is
\* not a database
DatasetMissingOrMalformed(id) ==
    \/ ~DatasetPresent(id)
    \/ files[FileAt(DbFileName(id))] \in {"corrupt", "unopenable"}

\* C1: compare_translations returns a result map with an entry for each of the
\* two requested translations; the entry of a side whose dataset is missing or
\* malformed is an error value, and the call is not aborted.
C1_CompareReturnsBothEntries ==
    \A t \in Threads :
        (Finished(t) /\ req[t].op = "compare_translations") =>
            /\ req[t].response.status = 200
            /\ \A i \in 1..2 :
                  /\ Upper(req[t].ids[i]) \in DOMAIN req[t].result
                  /\ DatasetMissingOrMalformed(req[t].ids[i])
                       => req[t].result[Upper(req[t].ids[i])].kind = "error"

\* the allow-list of the Dataset Locator: [A-Za-z0-9_] only
IsAllowListed(id) ==
    \A i \in 1..Len(id) :
        IsLower(id[i]) \/ IsUpper(id[i]) \/ IsDigit(id[i]) \/ id[i] = "_"

\* C3: no operation executes a SQL statement whose table name was built from
\* a translation identifier holding a character outside [A-Za-z0-9_].
C3_NoStatementFromUnlistedIdentifier ==
    \A t \in Threads :
        (req[t].pc # "idle" /\ req[t].op # "get_all_translations") =>
            \A e \in req[t].executed : IsAllowListed(e.id)

\* C4: a request that has returned or raised holds no open connection, the
\* open connections are those of the requests between their connect and their
\* close, and none is open when no request is in flight.
C4_NoConnectionLeftOpen ==
    /\ \A t \in Threads : Finished(t) => req[t].conn # "open"
    /\ nOpen = Cardinality({t \in Threads :
                              req[t].pc \in {"opened", "cmp_opened", "list_read"}})
    /\ (\A t \in Threads : req[t].pc \in {"idle", "done"}) => nOpen = 0

\* no request in flight, after a compare whose second dataset was missing and a
\* scan that skipped a dataset it could not read
C4_Witness ==
    /\ \A t \in Threads : Finished(t)
    /\ nOpen = 0
    /\ \E t \in Threads :
          /\ req[t].op = "compare_translations"
          /\ req[t].side = 2
          /\ req[t].response.status # 200
    /\ \E t \in Threads :
          /\ req[t].op = "get_all_translations"
          /\ \E f \in req[t].visited : files[f] # "good"

\* the datasets of the directory whose catalog row can be read
ReadableDatasets == {f \in ListDir : EndsWith(f, DotDb) /\ files[f] = "good"}

\* C9: get_all_translations visits every .db file of the directory, returns
\* the catalog row of each readable dataset and of no other, and answers 404
\* "No translations found" exactly when there is none.
C9_ScanSkipsUnreadableDatasets ==
    \A t \in Threads :
        (Finished(t) /\ req[t].op = "get_all_translations") =>
            /\ req[t].visited = {f \in ListDir : EndsWith(f, DotDb)}
            /\ SeqRange(req[t].translations_list)
                 = {CatalogRow(f) : f \in ReadableDatasets}
            /\ Len(req[t].translations_list) = Cardinality(ReadableDatasets)
            /\ (req[t].response.status = 404) <=> (ReadableDatasets = {})
            /\ req[t].response.status = 404
                 => req[t].response.detail = "No translations found"
            /\ req[t].response.status # 404
                 => /\ req[t].response.status = 200
                    /\ req[t].response.body = req[t].translations_list

\* a scan that returned a catalog row although another dataset was unreadable
C9_Witness ==
    \E t \in Threads :
        /\ Finished(t) /\ req[t].op = "get_all_translations"
        /\ req[t].response.status = 200
        /\ \E f \in req[t].visited : files[f] \in {"corrupt", "unopenable", "badrow"}

\* the request t has ended and the dataset file it needed first was missing
EndedOnMissingDataset(t) ==
    /\ Finished(t)
    /\ \/ req[t].op \in ScopedOps /\ ~DatasetPresent(req[t].id)
       \/ /\ req[t].op = "compare_translations"
          /\ \/ ~DatasetPresent(req[t].ids[1])
             \/ /\ DatasetPresent(req[t].ids[1])
                /\ files[FileAt(DbFileName(req[t].ids[1]))] # "unopenable"
                /\ ~DatasetPresent(req[t].ids[2])

\* C10 as stated: when the dataset file of the requested translation does not
\* exist, the operation fails with a 5xx status.
C10_MissingDatasetIs5xx ==
    \A t \in Threads : EndedOnMissingDataset(t) => req[t].response.status >= 500

\* C10 amended: when the dataset file of the requested translation does not
\* exist, the operation fails with status 404 and the detail "Database file
\* ... not found", the same status as a query that matches no row.
C10_MissingDatasetIs404 ==
    \A t \in Threads :
        EndedOnMissingDataset(t) =>
            /\ req[t].response.status = 404
            /\ req[t].response.detail = "Database file not found"
            /\ req[t].conn = "unset"

\* a single-translation operation and a compare that ended on a missing dataset
C10_Witness ==
    \E t \in Threads :
        /\ EndedOnMissingDataset(t)
        /\ req[t].op = "get_single_verse"

----------------------------------------------------------------------------
(* Properties of the startup rename *)

\* the rename step has run to its end and the app serves
Serving == call.op \in {"serving", "get_cross_references"}

\* C14: after the startup rename on a case-sensitive filesystem every dataset
\* file that was present is found by the path the API computes for it,
\* get_translation_db(id) for a translation and GLOBAL_DB_FILE for the shared
\* dataset, so get_cross_references never fails with "Database file ... not
\* found" when the shared file was installed under its documented name.
C14_DatasetsFoundAfterRename ==
    (Serving /\ call.returncode = 0) =>
        /\ \A n \in DOMAIN call.before :
              call.before[n] \in DatasetKinds =>
                  get_translation_db(splitext(n)[1]) # "not_found"
        /\ call.before[GLOBAL_DB_FILE] = "shared" =>
              /\ get_db_connection(GLOBAL_DB_FILE) # "not_found"
              /\ call.op = "get_cross_references" => call.response # DbNotFound

\* how many names of a directory hold each kind of content
ContentsBag(dir) ==
    [k \in StartupKinds |-> Cardinality({n \in DOMAIN dir : dir[n] = k})]

\* C15: the startup rename never destroys a dataset: whatever the directory
\* held, names differing only in letter case included, it holds as many files
\* with the same contents after uppercase.py has run, and a second run changes
\* nothing.
C15_RenameKeepsEveryFile ==
    (Serving /\ call.returncode = 0) =>
        /\ ContentsBag(files) = ContentsBag(call.before)
        /\ Cardinality(ListDir)
              = Cardinality({n \in DOMAIN call.before : call.before[n] # "absent"})
        /\ call.run = 2 => files = call.before

====
